---- MODULE Spec2Model ----
(***************************************************************************)
(* Model of Design_Pattern/week1_strategy_pattern_with_fastapi/            *)
(* calculator_api.py: four arithmetic strategies, the Calculator context   *)
(* object, the module-level registry `strategies` and the POST /calculate  *)
(* handler, which the framework runs on a pool of worker threads.          *)
(*                                                                         *)
(* Numbers: the request's floats are modelled as exact rationals           *)
(* [n |-> numerator, d |-> denominator > 0] in lowest terms, so that       *)
(* a / b is a true quotient and not an integer division.  Rounding,        *)
(* infinities and NaN of IEEE doubles are outside the model.               *)
(*                                                                         *)
(* Strings: an operation name is a sequence of one-character strings, so   *)
(* that dictionary lookup is equality of character sequences and case or   *)
(* whitespace variants are different keys.                                 *)
(***************************************************************************)
EXTENDS Integers, Sequences, FiniteSets, TLC

\* ------------------------------------------------------------------ bounds

\* worker threads that run the handler in parallel (Spec)
NumWorkers == 2
\* operands of sequential requests: numerators -MaxNum..MaxNum, denominators 1..MaxDen
MaxNum == 2
MaxDen == 2

\* ------------------------------------------------------------ plain values

\* Python's None
None == "None"

\* status_code=400 of both HTTPException raises
BadRequest == 400

Abs(x) == IF x < 0 THEN -x ELSE x

RECURSIVE GCD(_, _)
GCD(x, y) == IF y = 0 THEN x ELSE GCD(y, x % y)

\* the rational n/d (d # 0) in lowest terms with a positive denominator
Norm(n, d) ==
    LET g == GCD(Abs(n), Abs(d))
        s == IF d < 0 THEN -1 ELSE 1
    IN  [n |-> (s * n) \div g, d |-> (s * d) \div g]

Zero == [n |-> 0, d |-> 1]

\* a float request field: a: float, b: float
SeqNums == {Norm(n, d) : n \in -MaxNum..MaxNum, d \in 1..MaxDen}
\* the two operands of parallel requests: 0 and 1
ConcNums == {Zero, [n |-> 1, d |-> 1]}

\* ------------------------------------------------------------- strategies

Returned(v) == [raised |-> FALSE, value |-> v, exc |-> None, msg |-> None]
Raised(e, m) == [raised |-> TRUE, value |-> None, exc |-> e, msg |-> m]

\* OperationStrategy.calculate
BaseCalculate(a, b) == Raised("NotImplementedError", "")

\* AddStrategy.calculate: return a + b
AddCalculate(a, b) == Returned(Norm(a.n * b.d + b.n * a.d, a.d * b.d))

\* a mutant of SubtractStrategy.calculate: operands swapped
SubtractSwapped(a, b) == Returned(Norm(b.n * a.d - a.n * b.d, a.d * b.d))

\* SubtractStrategy.calculate: return a - b
SubtractCalculate(a, b) == Returned(Norm(a.n * b.d - b.n * a.d, a.d * b.d))

\* a mutant of MultiplyStrategy.calculate: a zero factor is refused
MultiplyGuarded(a, b) ==
    IF b = Zero THEN Raised("ValueError", "Division by zero")
    ELSE Returned(Norm(a.n * b.n, a.d * b.d))

\* MultiplyStrategy.calculate: return a * b
MultiplyCalculate(a, b) == Returned(Norm(a.n * b.n, a.d * b.d))

\* a mutant of DivideStrategy.calculate: 0 / 0 is answered with 0
DivideZeroByZero(a, b) ==
    IF b = Zero
    THEN IF a = Zero THEN Returned(Zero) ELSE Raised("ValueError", "Division by zero")
    ELSE Returned(Norm(a.n * b.d, a.d * b.n))

\* DivideStrategy.calculate: if b == 0: raise ValueError(...); return a / b
DivideCalculate(a, b) ==
    IF b = Zero THEN Raised("ValueError", "Division by zero")
    ELSE Returned(Norm(a.n * b.d, a.d * b.n))

\* the strategy classes; an instance has no fields, so its class names it
Concrete == {"AddStrategy", "SubtractStrategy", "MultiplyStrategy", "DivideStrategy"}
Strategies == Concrete \cup {"OperationStrategy"}

\* strategy.calculate(a, b), dispatched on the instance's class
StrategyCalculate(s, a, b) ==
    CASE s = "AddStrategy" -> AddCalculate(a, b)
      [] s = "SubtractStrategy" -> SubtractCalculate(a, b)
      [] s = "MultiplyStrategy" -> MultiplyCalculate(a, b)
      [] s = "DivideStrategy" -> DivideCalculate(a, b)
      [] OTHER -> BaseCalculate(a, b)

\* ------------------------------------------------------------- Calculator

\* Calculator.__init__
CalculatorInit(s) == [strategy |-> s]

\* a mutant of Calculator.set_strategy: the assignment is lost
SetStrategyLost(c, s) == c

\* Calculator.set_strategy
CalculatorSetStrategy(c, s) == [c EXCEPT !.strategy = s]

\* Calculator.calculate
CalculatorCalculate(c, a, b) == StrategyCalculate(c.strategy, a, b)

\* --------------------------------------------------------------- registry

Str_add == <<"a", "d", "d">>
Str_subtract == <<"s", "u", "b", "t", "r", "a", "c", "t">>
Str_multiply == <<"m", "u", "l", "t", "i", "p", "l", "y">>
Str_divide == <<"d", "i", "v", "i", "d", "e">>

\* the dict literal bound to `strategies` when the module is imported
StrategiesAtStart ==
    (Str_add :> "AddStrategy") @@ (Str_subtract :> "SubtractStrategy")
    @@ (Str_multiply :> "MultiplyStrategy") @@ (Str_divide :> "DivideStrategy")

\* str.lower() of one character, str.strip() and the symbol aliases of a name
Upper == <<"A", "D", "I", "V", "E">>
Lower == <<"a", "d", "i", "v", "e">>
LowerChar(c) ==
    IF \E i \in DOMAIN Upper : Upper[i] = c
    THEN Lower[CHOOSE i \in DOMAIN Upper : Upper[i] = c]
    ELSE c

RECURSIVE Strip(_)
Strip(s) ==
    IF s # <<>> /\ Head(s) = " " THEN Strip(Tail(s))
    ELSE IF s # <<>> /\ s[Len(s)] = " " THEN Strip(SubSeq(s, 1, Len(s) - 1))
    ELSE s

Canon(s) ==
    LET t == [i \in DOMAIN Strip(s) |-> LowerChar(Strip(s)[i])]
    IN  IF t = <<"+">> THEN Str_add
        ELSE IF t = <<"/">> THEN Str_divide
        ELSE t

\* a mutant of dict.get: the key is normalised before the lookup
GetNormalised(dict, key) == IF Canon(key) \in DOMAIN dict THEN dict[Canon(key)] ELSE None

\* a mutant of dict.get: a missing key falls back to the divide strategy
GetOrDivide(dict, key) == IF key \in DOMAIN dict THEN dict[key] ELSE "DivideStrategy"

\* dict.get(key): the value, or None for a missing key
Get(dict, key) == IF key \in DOMAIN dict THEN dict[key] ELSE None

\* a mutant of the lookup's effect on the dict: dict.setdefault(key, AddStrategy())
AfterSetDefault(dict, key) ==
    IF key \in DOMAIN dict THEN dict ELSE dict @@ (key :> "AddStrategy")

\* the dict after dict.get(key): a read leaves it as it was
AfterGet(dict, key) == dict

\* `not strategy`: a strategy instance defines neither __bool__ nor __len__
Falsy(x) == x = None

\* HTTPException(status_code=..., detail=...), raised out of the handler
HTTPException(code, text) ==
    [kind |-> "raise", status_code |-> code, detail |-> text, result |-> None]

\* return {"result": result}
Success(r) == [kind |-> "return", status_code |-> None, detail |-> None, result |-> r]

\* a mutant of the lookup-miss raise: another text
MissUnknown(r) == HTTPException(BadRequest, "Unknown operation")

\* raise HTTPException(status_code=400, detail="Invalid operation")
MissResponse(r) == HTTPException(BadRequest, "Invalid operation")

\* except ValueError as e: raise HTTPException(status_code=400, detail=str(e))
ErrorResponse(e) == HTTPException(BadRequest, e.msg)

\* ------------------------------------------------------------------ inputs

Str_modulo == <<"m", "o", "d", "u", "l", "o">>

\* operation names that are not keys of the registry
BadNames ==
    { Str_modulo, <<>>, <<"A", "d", "d">>, <<"A", "D", "D">>, <<" ", "a", "d", "d">>,
      <<"a", "d", "d", " ">>, <<"+">>, <<"/">>, <<"D", "i", "v", "i", "d", "e">> }

SeqNames == DOMAIN StrategiesAtStart \cup BadNames
ConcNames == DOMAIN StrategiesAtStart \cup {Str_modulo}

\* CalcRequest
CalcRequest(a, b, op) == [a |-> a, b |-> b, operation |-> op]

\* ------------------------------------------------------------------- state

VARIABLES
    strategies,   \* the module-level registry dict
    heap,         \* Calculator instances alive, by reference
    pc,           \* per worker: position in calculate(req)
    req,          \* per worker: the handler's argument
    strategy,     \* per worker: local `strategy`
    calculator,   \* per worker: local `calculator`, a reference into heap
    result,       \* per worker: outcome of calculator.calculate(req.a, req.b)
    response,     \* per worker: what the handler returned or raised
    trace,        \* per worker: the calls made so far for the current request
    installed,    \* the client instance's last __init__/set_strategy call
    lastCall      \* the last calculate call made on the client instance, if any

vars == <<strategies, heap, pc, req, strategy, calculator, result, response,
          trace, installed, lastCall>>

Workers == 1..NumWorkers
\* a worker's Calculator has a reference in Workers; reference 0 is the
\* instance that a direct client of the class holds

Init ==
    /\ strategies = StrategiesAtStart
    /\ heap = [r \in {} |-> None]
    /\ pc = [p \in Workers |-> "idle"]
    /\ req = [p \in Workers |-> None]
    /\ strategy = [p \in Workers |-> None]
    /\ calculator = [p \in Workers |-> None]
    /\ result = [p \in Workers |-> None]
    /\ response = [p \in Workers |-> None]
    /\ trace = [p \in Workers |-> <<>>]
    /\ installed = [strategy |-> None, by |-> None]
    /\ lastCall = {}

clientVars == <<installed, lastCall>>

\* ----------------------------------------------------------------- handler

\* a mutant of Calculator(strategy): one module-level instance is reused
SharedCalculator(p) == 1

\* Calculator(strategy) allocates a new object: no live reference names it
NewCalculator(p) == p

\* the heap with a new object at reference r, and with the object at r collected
Allocate(h, r, obj) == [x \in DOMAIN h \cup {r} |-> IF x = r THEN obj ELSE h[x]]
\* a mutant of the collection: the instance is kept alive
CollectLeak(h, r) == h

Collect(h, r) == [x \in DOMAIN h \ {r} |-> h[x]]

\* strategy = strategies.get(req.operation)
Lookup(p, r) ==
    /\ pc[p] \in {"idle", "done"}
    /\ req' = [req EXCEPT ![p] = r]
    /\ strategy' = [strategy EXCEPT ![p] = Get(strategies, r.operation)]
    /\ strategies' = AfterGet(strategies, r.operation)
    /\ response' = [response EXCEPT ![p] = None]
    /\ trace' = [trace EXCEPT ![p] = <<"strategies.get">>]
    /\ pc' = [pc EXCEPT ![p] = "looked"]
    /\ UNCHANGED <<heap, calculator, result, clientVars>>

\* if not strategy: raise HTTPException(400, "Invalid operation")
Reject(p) ==
    /\ pc[p] = "looked"
    /\ Falsy(strategy[p])
    /\ response' = [response EXCEPT ![p] = MissResponse(req[p])]
    /\ strategy' = [strategy EXCEPT ![p] = None]
    /\ pc' = [pc EXCEPT ![p] = "done"]
    /\ trace' = [trace EXCEPT ![p] = Append(@, "raise")]
    /\ UNCHANGED <<strategies, heap, req, calculator, result, clientVars>>

\* calculator = Calculator(strategy)
Construct(p) ==
    /\ pc[p] = "looked"
    /\ ~Falsy(strategy[p])
    /\ calculator' = [calculator EXCEPT ![p] = NewCalculator(p)]
    /\ heap' = Allocate(heap, NewCalculator(p), CalculatorInit(strategy[p]))
    /\ pc' = [pc EXCEPT ![p] = "built"]
    /\ trace' = [trace EXCEPT ![p] = Append(@, "Calculator")]
    /\ UNCHANGED <<strategies, req, strategy, result, response, clientVars>>

\* try: result = calculator.calculate(req.a, req.b)
Invoke(p) ==
    /\ pc[p] = "built"
    /\ result' = [result EXCEPT
                     ![p] = CalculatorCalculate(heap[calculator[p]], req[p].a, req[p].b)]
    /\ trace' = [trace EXCEPT ![p] = Append(@, "strategy.calculate")]
    /\ pc' = [pc EXCEPT ![p] = "called"]
    /\ UNCHANGED <<strategies, heap, req, strategy, calculator, response, clientVars>>

\* the frame's locals die with the call; the Calculator is collected
Exit(p, resp) ==
    /\ response' = [response EXCEPT ![p] = resp]
    /\ heap' = Collect(heap, calculator[p])
    /\ strategy' = [strategy EXCEPT ![p] = None]
    /\ calculator' = [calculator EXCEPT ![p] = None]
    /\ result' = [result EXCEPT ![p] = None]
    /\ pc' = [pc EXCEPT ![p] = "done"]
    /\ trace' = [trace EXCEPT ![p] = Append(@, resp.kind)]
    /\ UNCHANGED <<strategies, req, clientVars>>

\* except ValueError as e: raise HTTPException(400, str(e))
Except(p) ==
    /\ pc[p] = "called"
    /\ result[p].raised
    /\ result[p].exc = "ValueError"
    /\ Exit(p, ErrorResponse(result[p]))

\* return {"result": result}
Return(p) ==
    /\ pc[p] = "called"
    /\ ~result[p].raised
    /\ Exit(p, Success(result[p].value))

Step(p) == Reject(p) \/ Construct(p) \/ Invoke(p) \/ Except(p) \/ Return(p)

\* --------------------------------------------- direct client of Calculator

\* c = Calculator(s)
ClientNew(s) ==
    /\ 0 \notin DOMAIN heap
    /\ heap' = Allocate(heap, 0, CalculatorInit(s))
    /\ installed' = [strategy |-> s, by |-> "__init__"]
    /\ lastCall' = {}
    /\ UNCHANGED <<strategies, pc, req, strategy, calculator, result, response, trace>>

\* c.set_strategy(s)
ClientSetStrategy(s) ==
    /\ 0 \in DOMAIN heap
    /\ heap' = [heap EXCEPT ![0] = CalculatorSetStrategy(heap[0], s)]
    /\ installed' = [strategy |-> s, by |-> "set_strategy"]
    /\ UNCHANGED <<strategies, pc, req, strategy, calculator, result, response,
                   trace, lastCall>>

\* c.calculate(a, b)
ClientCalculate(a, b) ==
    /\ 0 \in DOMAIN heap
    /\ lastCall' = {[a |-> a, b |-> b, installed |-> installed,
                     out |-> CalculatorCalculate(heap[0], a, b)]}
    /\ UNCHANGED <<strategies, heap, pc, req, strategy, calculator, result, response,
                   trace, installed>>

\* del c
ClientDel ==
    /\ 0 \in DOMAIN heap
    /\ heap' = Collect(heap, 0)
    /\ installed' = [strategy |-> None, by |-> None]
    /\ lastCall' = {}
    /\ UNCHANGED <<strategies, pc, req, strategy, calculator, result, response, trace>>

\* calculate(req) run to its end with no other request in flight
HandleAlone(r) ==
    LET s == Get(StrategiesAtStart, r.operation)
        out == CalculatorCalculate(CalculatorInit(s), r.a, r.b)
    IN  IF Falsy(s) THEN MissResponse(r)
        ELSE IF out.raised THEN ErrorResponse(out)
        ELSE Success(out.value)

\* --------------------------------------------------------- specifications

ConcRequests == {CalcRequest(a, b, op) : a \in ConcNums, b \in ConcNums, op \in ConcNames}
SeqRequests == {CalcRequest(a, b, op) : a \in SeqNums, b \in SeqNums, op \in SeqNames}

\* the worker pool serving parallel requests
Next ==
    \/ \E p \in Workers, r \in ConcRequests : Lookup(p, r)
    \/ \E p \in Workers : Reject(p)
    \/ \E p \in Workers : Construct(p)
    \/ \E p \in Workers : Invoke(p)
    \/ \E p \in Workers : Except(p)
    \/ \E p \in Workers : Return(p)

Spec == Init /\ [][Next]_vars

\* one request after another, over the wide input domain
NextSeq ==
    \/ \E r \in SeqRequests : Lookup(1, r)
    \/ Reject(1)
    \/ Construct(1)
    \/ Invoke(1)
    \/ Except(1)
    \/ Return(1)

SpecSeq == Init /\ [][NextSeq]_vars

\* a direct client of the Calculator class beside one request at a time
NextCalculator ==
    \/ \E s \in Strategies : ClientNew(s)
    \/ \E s \in Strategies : ClientSetStrategy(s)
    \/ \E a \in ConcNums, b \in ConcNums : ClientCalculate(a, b)
    \/ ClientDel
    \/ \E r \in ConcRequests : Lookup(1, r)
    \/ Reject(1)
    \/ Construct(1)
    \/ Invoke(1)
    \/ Except(1)
    \/ Return(1)

SpecCalculator == Init /\ [][NextCalculator]_vars

\* ------------------------------------------------------------------ claims

\* the four operation names of the registry, written out
RegisteredNames == {Str_add, Str_subtract, Str_multiply, Str_divide}

Done(p) == pc[p] = "done"
InFlight(p) == pc[p] \in {"looked", "built", "called"}

\* the rational r equals n / d
RatEq(r, n, d) == r.d > 0 /\ r.n * d = n * r.d

\* r is what arithmetic gives for a <op> b
Correct(op, a, b, r) ==
    CASE op = Str_add -> RatEq(r, a.n * b.d + b.n * a.d, a.d * b.d)
      [] op = Str_subtract -> RatEq(r, a.n * b.d - b.n * a.d, a.d * b.d)
      [] op = Str_multiply -> RatEq(r, a.n * b.n, a.d * b.d)
      [] op = Str_divide -> RatEq(r, a.n * b.d, a.d * b.n)
      [] OTHER -> FALSE

IsError(resp, text) ==
    /\ resp.kind = "raise"
    /\ resp.status_code = 400
    /\ resp.detail = text
    /\ resp.result = None

\* C1: a finished request naming add, subtract, multiply or divide (b # 0 for
\* divide) returned {result: r} with r = a+b, a-b, a*b or a/b.
C1_CorrectResult ==
    \A p \in Workers :
        (Done(p) /\ req[p].operation \in RegisteredNames
                 /\ ~(req[p].operation = Str_divide /\ req[p].b.n = 0))
        => /\ response[p].kind = "return"
           /\ response[p].status_code = None
           /\ Correct(req[p].operation, req[p].a, req[p].b, response[p].result)

\* a division with a quotient that is no integer, and a subtraction of a negative
C1_Witness ==
    /\ Done(1)
    /\ req[1].operation = Str_divide
    /\ req[1].a = [n |-> 1, d |-> 1]
    /\ req[1].b = [n |-> -2, d |-> 1]
    /\ response[1].kind = "return"
    /\ response[1].result = [n |-> -1, d |-> 2]

\* C2: divide with b = 0 ends, for every a, in the 400 error "Division by zero"
\* and no result.
C2_DivisionByZero ==
    \A p \in Workers :
        (Done(p) /\ req[p].operation = Str_divide /\ req[p].b.n = 0)
        => IsError(response[p], "Division by zero")

C2_Witness ==
    /\ Done(1)
    /\ req[1].operation = Str_divide
    /\ req[1].a.n = 0
    /\ req[1].b.n = 0
    /\ response[1].detail = "Division by zero"

\* C3: an operation name outside the four registered ones ends, for every a and
\* b, in the 400 error with exactly the text "Invalid operation" and no result.
C3_InvalidOperation ==
    \A p \in Workers :
        (Done(p) /\ req[p].operation \notin RegisteredNames)
        => IsError(response[p], "Invalid operation")

C3_Witness ==
    /\ Done(1)
    /\ req[1].operation = <<>>
    /\ req[1].a.n # 0
    /\ response[1].kind = "raise"
    /\ response[1].detail = "Invalid operation"

\* C4: two finished calls with the same (a, b, operation) have the same
\* response, whatever other requests were handled before, between or beside them.
C4_SameInputSameOutput ==
    \A p, q \in Workers :
        (Done(p) /\ Done(q) /\ req[p] = req[q]) => response[p] = response[q]

\* the repeated request is one that fails, and the trace shows both ran fully
C4_Witness ==
    \E p, q \in Workers :
        /\ p # q
        /\ Done(p) /\ Done(q)
        /\ req[p] = req[q]
        /\ req[p].operation = Str_divide
        /\ req[p].b.n = 0
        /\ response[q].kind = "raise"

\* C5: the registry always holds exactly the four names with the strategies of
\* process start, and a Calculator is alive only for a request between its
\* construction and its end: no request leaves anything behind.
C5_RegistryUnchanged ==
    /\ DOMAIN strategies = RegisteredNames
    /\ strategies[Str_add] = "AddStrategy"
    /\ strategies[Str_subtract] = "SubtractStrategy"
    /\ strategies[Str_multiply] = "MultiplyStrategy"
    /\ strategies[Str_divide] = "DivideStrategy"
    /\ DOMAIN heap = {p \in Workers : pc[p] \in {"built", "called"}}
    /\ \A p \in Workers :
           pc[p] \in {"idle", "done"}
           => strategy[p] = None /\ calculator[p] = None /\ result[p] = None

\* one request failed on the lookup and another on the division
C5_Witness ==
    \E p, q \in Workers :
        /\ Done(p) /\ Done(q)
        /\ response[p].detail = "Invalid operation"
        /\ response[q].detail = "Division by zero"

\* C6: under every interleaving a request computes with its own strategy and
\* operands, and its response is the one it gets when handled alone.
C6_Isolation ==
    \A p \in Workers :
        LET own == Get(StrategiesAtStart, req[p].operation)
        IN  /\ pc[p] \in {"looked", "built", "called"} => strategy[p] = own
            /\ pc[p] \in {"built", "called"}
               => calculator[p] \in DOMAIN heap /\ heap[calculator[p]].strategy = own
            /\ pc[p] = "called" => result[p] = StrategyCalculate(own, req[p].a, req[p].b)
            /\ Done(p) => response[p] = HandleAlone(req[p])

\* two requests with different strategies are in flight at once
C6_Witness ==
    \E p, q \in Workers :
        /\ pc[p] = "called"
        /\ pc[q] = "built"
        /\ strategy[p] = "DivideStrategy"
        /\ strategy[q] = "AddStrategy"
        /\ result[p].raised

\* C7: a name that differs from a registered one only by letter case, by
\* surrounding blanks or by being its symbol is never dispatched: the lookup
\* misses, no strategy is called and the request ends in "Invalid operation".
C7_ExactMatch ==
    \A p \in Workers :
        (pc[p] # "idle" /\ req[p].operation \notin RegisteredNames
                        /\ Canon(req[p].operation) \in RegisteredNames)
        => /\ pc[p] \in {"looked", "done"}
           /\ strategy[p] = None
           /\ \A i \in DOMAIN trace[p] : trace[p][i] # "strategy.calculate"
           /\ Done(p) => IsError(response[p], "Invalid operation")

C7_Witness ==
    /\ Done(1)
    /\ req[1].operation = <<" ", "a", "d", "d">>
    /\ Canon(req[1].operation) = Str_add
    /\ response[1].detail = "Invalid operation"

\* C8: within a request the lookup comes before any strategy call, and after a
\* miss no strategy is called: an unknown name with b = 0 ends in "Invalid
\* operation", never "Division by zero".
C8_LookupFirst ==
    \A p \in Workers :
        /\ \A i \in DOMAIN trace[p] :
               trace[p][i] = "strategy.calculate"
               => \E j \in 1..(i - 1) : trace[p][j] = "strategies.get"
        /\ (pc[p] # "idle" /\ req[p].operation \notin RegisteredNames)
           => /\ \A i \in DOMAIN trace[p] : trace[p][i] # "strategy.calculate"
              /\ Done(p) => response[p].detail = "Invalid operation"

C8_Witness ==
    /\ Done(1)
    /\ req[1].operation = Str_modulo
    /\ req[1].b.n = 0
    /\ trace[1] = <<"strategies.get", "raise">>
    /\ response[1].detail = "Invalid operation"

\* C9: calculate on a Calculator answers with the strategy last installed on it
\* by __init__ or set_strategy; a request's Calculator is an object of its own,
\* holds the looked-up strategy until the request ends, and is gone after it.
C9_CurrentStrategy ==
    /\ \A c \in lastCall : c.out = StrategyCalculate(c.installed.strategy, c.a, c.b)
    /\ 0 \in DOMAIN heap => heap[0].strategy = installed.strategy
    /\ \A p \in Workers :
           /\ pc[p] \in {"built", "called"}
              => /\ calculator[p] \in DOMAIN heap \ {0}
                 /\ heap[calculator[p]].strategy = StrategiesAtStart[req[p].operation]
           /\ pc[p] \notin {"built", "called"} => calculator[p] = None
    /\ DOMAIN heap \ {0} = {calculator[p] : p \in {q \in Workers : pc[q] \in {"built", "called"}}}

\* set_strategy replaced the constructor's strategy while a request held its own
C9_Witness ==
    /\ \E c \in lastCall :
           /\ c.installed = [strategy |-> "SubtractStrategy", by |-> "set_strategy"]
           /\ c.a.n = 0 /\ c.b.n = 1
           /\ c.out = Returned([n |-> -1, d |-> 1])
    /\ pc[1] = "called"
    /\ heap[calculator[1]].strategy = "AddStrategy"

\* C10: a request in flight can always take its next step and takes at most
\* four; it ends in a result, "Invalid operation" or "Division by zero", and in
\* an error exactly when the name is unregistered or it is divide with b = 0.
C10_Outcomes ==
    \A p \in Workers :
        /\ InFlight(p) => ENABLED Step(p)
        /\ Len(trace[p]) <= 4
        /\ Done(p)
           => /\ \/ response[p].kind = "return"
                 \/ IsError(response[p], "Invalid operation")
                 \/ IsError(response[p], "Division by zero")
              /\ response[p].kind = "raise"
                 <=> \/ req[p].operation \notin RegisteredNames
                     \/ req[p].operation = Str_divide /\ req[p].b.n = 0

\* multiply by zero succeeds
C10_Witness ==
    /\ Done(1)
    /\ req[1].operation = Str_multiply
    /\ req[1].b.n = 0
    /\ req[1].a.n = 2
    /\ response[1].kind = "return"
    /\ response[1].result = Zero

====
